---------------------------- MODULE Spec2Model ----------------------------
(***************************************************************************)
(* Model of electron/main.cjs of local-whisper-app: the tray application   *)
(* that watches a hold-to-talk hotkey, supervises the Python worker,       *)
(* keeps a WebSocket to it with a reconnect timer, switches between the    *)
(* "stt" and "assistant" modes and pastes transcripts.                     *)
(*                                                                         *)
(* The module-level variables of main.cjs are the model's variables.       *)
(* Every function of main.cjs is an operator from a state record to a      *)
(* state record (the JavaScript runs each callback to completion on one    *)
(* thread), and every callback the runtime can invoke is one action.       *)
(* What a callback hands to the outside (a command written to the socket,  *)
(* a cue, a write of settings.json, a text given to the paste routine) is  *)
(* recorded in the observation variables sent, cue, saved and delivered,   *)
(* which are cleared at the start of every callback.                       *)
(***************************************************************************)
EXTENDS Naturals, Sequences, FiniteSets

(***************************************************************************)
(* Bounds of the model.                                                    *)
(***************************************************************************)
MaxOld == 1        \* replaced sockets whose 'close' has not been emitted yet
MaxPending == 2    \* outstanding setTimeout callbacks that are counted
MaxCount == 2      \* saturation of the history counters
MaxLen == 3        \* longest text of an inbound message
MaxInflight == 2   \* paste routines running at the same time
MaxTokens == 2     \* most "+"-separated tokens of a hotkey string

Modes == {"stt", "assistant"}
StatusStates == {"listening", "transcribing", "thinking", "speaking", "idle", "other"}
NonIdleStates == {"listening", "transcribing", "thinking", "speaking"}

\* Characters of message texts; Whitespace are the ones String.prototype.trim strips.
Whitespace == {" "}
Chars == {" ", "a"}

RECURSIVE SeqsUpTo(_)
SeqsUpTo(n) ==
  IF n = 0 THEN {<<>>}
  ELSE LET shorter == SeqsUpTo(n - 1)
       IN shorter \cup {Append(t, c) : t \in {u \in shorter : Len(u) = n - 1}, c \in Chars}

Texts == SeqsUpTo(MaxLen)

Min(a, b) == IF a < b THEN a ELSE b

VARIABLES
  phase,          \* "init": module loaded, whenReady not run yet; "running"
  defaultMode,    \* DEFAULT_MODE (environment, lower-cased)
  settingsFile,   \* "absent", the mode stored in settings.json, or "empty"
  settingsWrite,  \* what a write of settings.json does now: "ok"; "fails"
                  \* (throws before the file is opened); "truncates" (the
                  \* file is opened with flag w, then the write throws)
  sound,          \* LOCAL_WHISPER_SOUND (environment), "" when unset
  currentMode,
  llmAvailable,
  ws,             \* readyState of the socket in ws, or "null"
  wsConnected,
  oldSockets,     \* sockets replaced in ws that have not emitted 'close' yet
  pythonProc,     \* "null", "running" or "failed" (see startPythonService)
  reconnectTimer, \* TRUE iff reconnectTimer holds a timer handle
  pendingTimers,  \* setTimeout callbacks of scheduleReconnect not yet run
  holdActive,
  wasActive,
  inputMode,      \* "none" before whenReady, then "hook" or "fallback"
  clipboard,      \* <<>> or <<text>>: content of the system clipboard
  inflight,       \* texts of the pasteIntoFocusedApp calls still awaiting
  last,           \* the callback that ran last and its input
  sent,           \* commands written to the socket by the last callback
  cue,            \* playCue argument of the last callback, or "none"
  saved,          \* TRUE iff the last callback wrote settings.json
  delivered,      \* texts the last callback handed to pasteIntoFocusedApp
  pasted,         \* <<text of the routine, text pasted>> pairs of the last callback
  startsSinceRelease, \* start commands sent since the last sendStopCommand call
  schedCalls,     \* scheduleReconnect calls since the timer callback last ran
  nonIdleSinceIdle,   \* a non-idle status was handled since the last idle one
  hotkey,         \* HOTKEY (environment), split at "+"
  holdSpec,       \* spec of setupHoldToTalk; ok is FALSE for null
  keyEvent,       \* <<>> or <<event>>: the key event the last callback received
  calls,          \* spawn / new WebSocket / sendStart / sendStop calls of the last callback
  orphanSockets,  \* sockets replaced in ws while CONNECTING or OPEN
  liveProcs,      \* worker processes spawned and not exited
  dropInHold,     \* "dropped": the channel was lost during the hold in progress;
                  \* "released": the last hold ended after such a loss and no
                  \* press has been handled since; "none" otherwise
  exitSinceArm    \* a worker exit was handled after the pending timer was armed

vars == <<phase, defaultMode, settingsFile, settingsWrite, sound,
          currentMode, llmAvailable, ws,
          wsConnected, oldSockets, pythonProc, reconnectTimer, pendingTimers,
          holdActive, wasActive, inputMode, clipboard, inflight, last, sent,
          cue, saved, delivered, pasted, startsSinceRelease, schedCalls,
          nonIdleSinceIdle, hotkey, holdSpec, keyEvent, calls, orphanSockets,
          liveProcs, dropInHold, exitSinceArm>>

\* The variables of main.cjs and of its environment, without the observations.
progVars == <<phase, defaultMode, settingsFile, settingsWrite, sound,
              currentMode, llmAvailable, ws,
              wsConnected, oldSockets, pythonProc, reconnectTimer,
              pendingTimers, holdActive, wasActive, inputMode, clipboard,
              inflight, hotkey, holdSpec>>

Cur ==
  [phase |-> phase, defaultMode |-> defaultMode, settingsFile |-> settingsFile,
   settingsWrite |-> settingsWrite, sound |-> sound,
   currentMode |-> currentMode, llmAvailable |-> llmAvailable, ws |-> ws,
   wsConnected |-> wsConnected, oldSockets |-> oldSockets,
   pythonProc |-> pythonProc, reconnectTimer |-> reconnectTimer,
   pendingTimers |-> pendingTimers, holdActive |-> holdActive,
   wasActive |-> wasActive, inputMode |-> inputMode, clipboard |-> clipboard,
   inflight |-> inflight, last |-> last, sent |-> sent, cue |-> cue,
   saved |-> saved, delivered |-> delivered, pasted |-> pasted,
   startsSinceRelease |-> startsSinceRelease, schedCalls |-> schedCalls,
   nonIdleSinceIdle |-> nonIdleSinceIdle, hotkey |-> hotkey,
   holdSpec |-> holdSpec, keyEvent |-> keyEvent, calls |-> calls,
   orphanSockets |-> orphanSockets, liveProcs |-> liveProcs,
   dropInHold |-> dropInHold, exitSinceArm |-> exitSinceArm]

Apply(s) ==
  /\ phase' = s.phase
  /\ defaultMode' = s.defaultMode
  /\ settingsFile' = s.settingsFile
  /\ settingsWrite' = s.settingsWrite
  /\ sound' = s.sound
  /\ currentMode' = s.currentMode
  /\ llmAvailable' = s.llmAvailable
  /\ ws' = s.ws
  /\ wsConnected' = s.wsConnected
  /\ oldSockets' = s.oldSockets
  /\ pythonProc' = s.pythonProc
  /\ reconnectTimer' = s.reconnectTimer
  /\ pendingTimers' = s.pendingTimers
  /\ holdActive' = s.holdActive
  /\ wasActive' = s.wasActive
  /\ inputMode' = s.inputMode
  /\ clipboard' = s.clipboard
  /\ inflight' = s.inflight
  /\ last' = s.last
  /\ sent' = s.sent
  /\ cue' = s.cue
  /\ saved' = s.saved
  /\ delivered' = s.delivered
  /\ pasted' = s.pasted
  /\ startsSinceRelease' = s.startsSinceRelease
  /\ schedCalls' = s.schedCalls
  /\ nonIdleSinceIdle' = s.nonIdleSinceIdle
  /\ hotkey' = s.hotkey
  /\ holdSpec' = s.holdSpec
  /\ keyEvent' = s.keyEvent
  /\ calls' = s.calls
  /\ orphanSockets' = s.orphanSockets
  /\ liveProcs' = s.liveProcs
  /\ dropInHold' = s.dropInHold
  /\ exitSinceArm' = s.exitSinceArm

\* The state a callback starts from: the current state with the observations cleared.
Begin(op, arg) ==
  [Cur EXCEPT !.last = [op |-> op, arg |-> arg, hit |-> FALSE,
                        preHold |-> FALSE, text |-> <<>>],
              !.sent = <<>>, !.cue = "none", !.saved = FALSE,
              !.delivered = <<>>, !.pasted = <<>>, !.keyEvent = <<>>,
              !.calls = <<>>]

(***************************************************************************)
(* Settings and mode (main.cjs 61-108).                                    *)
(***************************************************************************)
InitialMode(d) == IF d = "assistant" THEN "assistant" ELSE "stt"

loadSettings(s) ==
  IF s.settingsFile = "absent" THEN s
  ELSE IF s.settingsFile \in {"stt", "assistant"}
       THEN [s EXCEPT !.currentMode = s.settingsFile]
       ELSE s

\* A write that throws is caught: settings.json is as it was when mkdirSync
\* or the open threw, and empty when writeFileSync had opened (and so
\* truncated) it before it threw.
saveSettings(s) ==
  CASE s.settingsWrite = "ok"
         -> [s EXCEPT !.settingsFile = s.currentMode, !.saved = TRUE]
    [] s.settingsWrite = "truncates" -> [s EXCEPT !.settingsFile = "empty"]
    [] OTHER -> s

\* setMode without the check of llmAvailable.
setModeUnchecked(s, mode) ==
  IF mode \notin {"stt", "assistant"} THEN s
  ELSE IF s.currentMode = mode THEN s
  ELSE saveSettings([s EXCEPT !.currentMode = mode])

setMode(s, mode) ==
  IF mode \notin {"stt", "assistant"} THEN s
  ELSE IF s.currentMode = mode THEN s
  ELSE IF mode = "assistant" /\ ~s.llmAvailable THEN s
  ELSE saveSettings([s EXCEPT !.currentMode = mode])

toggleMode(s) ==
  IF s.currentMode = "stt" /\ ~s.llmAvailable THEN s
  ELSE setMode(s, IF s.currentMode = "stt" THEN "assistant" ELSE "stt")

playCue(s, kind) ==
  LET enabled == (IF s.sound = "" THEN "1" ELSE s.sound) # "0"
  IN IF ~enabled THEN s ELSE [s EXCEPT !.cue = kind]

\* Records a call the properties refer to.
Call(s, name) == [s EXCEPT !.calls = Append(@, name)]

(***************************************************************************)
(* Worker process, socket and reconnect timer (main.cjs 130-288).          *)
(***************************************************************************)
\* startPythonService without the check of pythonProc.
startPythonServiceAlways(s) ==
  [Call(s, "spawn") EXCEPT !.pythonProc = "running",
                           !.liveProcs = Min(@ + 1, MaxCount)]

\* pythonProc is "running" from spawn() on; "failed" is the handle of a
\* process that could not be started.  kill() is called at quit only, so
\* killed is false on every handle the function sees.
startPythonService(s) ==
  IF s.pythonProc # "null" THEN s
  ELSE [Call(s, "spawn") EXCEPT !.pythonProc = "running",
                                !.liveProcs = Min(@ + 1, MaxCount)]

\* connectWebSocket without the check of readyState.
connectWebSocketAlways(s) ==
  [Call(s, "newWebSocket") EXCEPT
     !.wsConnected = FALSE,
     !.oldSockets = IF s.ws = "CLOSING" THEN Min(@ + 1, MaxOld) ELSE @,
     !.orphanSockets = IF s.ws \in {"OPEN", "CONNECTING"}
                       THEN Min(@ + 1, MaxCount) ELSE @,
     !.ws = "CONNECTING"]

\* A socket replaced while CLOSING still owes its 'close' event.
connectWebSocket(s) ==
  IF s.ws # "null" /\ (s.ws = "OPEN" \/ s.ws = "CONNECTING") THEN s
  ELSE [Call(s, "newWebSocket") EXCEPT
          !.wsConnected = FALSE,
          !.oldSockets = IF s.ws = "CLOSING" THEN @ + 1 ELSE @,
          !.ws = "CONNECTING"]

\* scheduleReconnect without the check of a pending timer.
scheduleReconnectAlways(s) ==
  [s EXCEPT !.schedCalls = Min(@ + 1, MaxCount),
            !.reconnectTimer = TRUE,
            !.pendingTimers = Min(@ + 1, MaxPending)]

scheduleReconnect(s) ==
  LET t == [s EXCEPT !.schedCalls = Min(@ + 1, MaxCount)]
  IN IF t.reconnectTimer THEN t
     ELSE [t EXCEPT !.reconnectTimer = TRUE,
                    !.pendingTimers = Min(@ + 1, MaxPending)]

reconnectTimerFired(s) ==
  connectWebSocket(startPythonService(
    [s EXCEPT !.reconnectTimer = FALSE, !.pendingTimers = @ - 1,
              !.schedCalls = 0]))

\* An exit handler that restarts the worker itself.
pythonExitRespawn(s) ==
  startPythonService(
    scheduleReconnect([s EXCEPT !.pythonProc = "null", !.wsConnected = FALSE]))

pythonExit(s) ==
  scheduleReconnect([s EXCEPT !.pythonProc = "null", !.wsConnected = FALSE])

wsOnOpen(s) == [s EXCEPT !.wsConnected = TRUE]

wsOnClose(s) == scheduleReconnect([s EXCEPT !.wsConnected = FALSE])

wsOnError(s) == scheduleReconnect([s EXCEPT !.wsConnected = FALSE])

(***************************************************************************)
(* Start and stop commands (main.cjs 290-319).                             *)
(***************************************************************************)
\* sendStartCommand without the check of holdActive.
sendStartCommandRepeating(s) ==
  LET t == [s EXCEPT !.holdActive = TRUE]
  IN IF ~t.wsConnected \/ t.ws = "null" \/ t.ws # "OPEN"
     THEN scheduleReconnect(t)
     ELSE [playCue(t, "start") EXCEPT
             !.sent = Append(@, <<"start", t.currentMode>>),
             !.startsSinceRelease = Min(@ + 1, MaxCount)]

\* sendStartCommand that checks wsConnected only, not the socket's readyState.
sendStartCommandFlagOnly(s) ==
  IF s.holdActive THEN s
  ELSE LET t == [s EXCEPT !.holdActive = TRUE]
       IN IF ~t.wsConnected
          THEN scheduleReconnect(t)
          ELSE [playCue(t, "start") EXCEPT
                  !.sent = Append(@, <<"start", t.currentMode>>),
                  !.startsSinceRelease = Min(@ + 1, MaxCount)]

sendStartCommand(s) ==
  IF s.holdActive THEN s
  ELSE LET t == [s EXCEPT !.holdActive = TRUE]
       IN IF ~t.wsConnected \/ t.ws = "null" \/ t.ws # "OPEN"
          THEN scheduleReconnect(t)
          ELSE [playCue(t, "start") EXCEPT
                  !.sent = Append(@, <<"start", t.currentMode>>),
                  !.startsSinceRelease = Min(@ + 1, MaxCount)]

\* sendStopCommand that returns on a lost channel before it clears holdActive.
sendStopCommandConnectedOnly(s) ==
  LET r == [s EXCEPT !.startsSinceRelease = 0]
  IN IF ~s.holdActive THEN r
     ELSE IF ~r.wsConnected \/ r.ws = "null" \/ r.ws # "OPEN" THEN r
          ELSE [r EXCEPT !.holdActive = FALSE, !.sent = Append(@, <<"stop">>)]

\* sendStopCommand that sends whenever the socket is open.
sendStopCommandAnySocket(s) ==
  LET r == [s EXCEPT !.startsSinceRelease = 0]
  IN IF ~s.holdActive THEN r
     ELSE LET t == [r EXCEPT !.holdActive = FALSE]
          IN IF t.ws # "OPEN" THEN t
             ELSE [t EXCEPT !.sent = Append(@, <<"stop">>)]

sendStopCommand(s) ==
  LET r == [s EXCEPT !.startsSinceRelease = 0]
  IN IF ~s.holdActive THEN r
     ELSE LET t == [r EXCEPT !.holdActive = FALSE]
          IN IF ~t.wsConnected \/ t.ws = "null" \/ t.ws # "OPEN" THEN t
             ELSE [t EXCEPT !.sent = Append(@, <<"stop">>)]

(***************************************************************************)
(* Hold-to-talk hotkey (main.cjs 351-383).  HoldSpec is what               *)
(* parseHoldHotkey returns for the default HOTKEY "Control+Alt+W".         *)
(***************************************************************************)
\* The keys of the model with their codes in UiohookKey; 0 stands for undefined.
UiohookKey(enumKey) ==
  CASE enumKey = "W" -> 17
    [] enumKey = "X" -> 45
    [] OTHER -> 0

Keycodes == {UiohookKey("W"), UiohookKey("X")}
KeyEvents == [keycode : Keycodes, ctrlKey : BOOLEAN, altKey : BOOLEAN,
              shiftKey : BOOLEAN, metaKey : BOOLEAN]

\* The tokens hotkey strings are made of, and String.prototype.toLowerCase,
\* toUpperCase and charAt(0).toUpperCase() + slice(1) on them.
Tokens == {"ctrl", "Alt", "Shift", "Win", "W", "x", "Foo", ""}
DefaultHotkey == <<"Control", "Alt", "W">>

toLowerCase(t) ==
  CASE t = "Control" -> "control"
    [] t = "Alt" -> "alt"
    [] t = "Shift" -> "shift"
    [] t = "Win" -> "win"
    [] t = "W" -> "w"
    [] t = "Foo" -> "foo"
    [] OTHER -> t

enumKeyOf(keyName) ==
  CASE keyName = "x" -> "X"
    [] keyName = "w" -> "W"
    [] keyName = "foo" -> "Foo"
    [] OTHER -> keyName

\* null of parseHoldHotkey, and the spec before setupHoldToTalk has run.
NoSpec == [ok |-> FALSE, ctrl |-> FALSE, alt |-> FALSE, shift |-> FALSE,
           meta |-> FALSE, keycode |-> 0, keyName |-> ""]

RECURSIVE parseTokens(_, _)
parseTokens(parts, spec) ==
  IF parts = <<>> THEN spec
  ELSE LET raw == Head(parts)
           p == toLowerCase(raw)
       IN parseTokens(Tail(parts),
            IF p = "control" \/ p = "ctrl" THEN [spec EXCEPT !.ctrl = TRUE]
            ELSE IF p = "alt" THEN [spec EXCEPT !.alt = TRUE]
            ELSE IF p = "shift" THEN [spec EXCEPT !.shift = TRUE]
            ELSE IF p \in {"super", "meta", "command", "win", "windows"}
                 THEN [spec EXCEPT !.meta = TRUE]
            ELSE [spec EXCEPT !.keyName = raw])

\* accelerator is the hotkey string split at "+"; keyName "" stands for null.
parseHoldHotkey(accelerator) ==
  LET parts == SelectSeq(accelerator, LAMBDA p : p # "")
      spec == parseTokens(parts, NoSpec)
  IN IF spec.keyName = "" THEN NoSpec
     ELSE LET enumKey == enumKeyOf(spec.keyName)
              keycode == UiohookKey(enumKey)
          IN IF keycode = 0 THEN NoSpec
             ELSE [spec EXCEPT !.keycode = keycode, !.keyName = enumKey,
                               !.ok = TRUE]

HoldSpec == parseHoldHotkey(DefaultHotkey)

\* matches that compares the key only.
matchesKeyOnly(event, spec) == event.keycode = spec.keycode

matches(event, spec) ==
  IF event.keycode # spec.keycode THEN FALSE
  ELSE IF spec.ctrl /\ ~event.ctrlKey THEN FALSE
  ELSE IF spec.alt /\ ~event.altKey THEN FALSE
  ELSE IF spec.shift /\ ~event.shiftKey THEN FALSE
  ELSE IF spec.meta /\ ~event.metaKey THEN FALSE
  ELSE TRUE

mainKeyReleased(event, spec) == event.keycode = spec.keycode

modifiersReleased(event, spec) ==
  \/ spec.ctrl /\ ~event.ctrlKey
  \/ spec.alt /\ ~event.altKey
  \/ spec.shift /\ ~event.shiftKey
  \/ spec.meta /\ ~event.metaKey

onKeydown(s, event) ==
  IF matches(event, s.holdSpec)
  THEN sendStartCommand(Call(s, "sendStartCommand"))
  ELSE s

\* A keyup handler that stops on every releasing event, holdActive or not.
onKeyupAnyRelease(s, event) ==
  IF mainKeyReleased(event, s.holdSpec) \/ modifiersReleased(event, s.holdSpec)
  THEN LET t == [Call(s, "sendStopCommand") EXCEPT
                   !.holdActive = FALSE, !.startsSinceRelease = 0]
       IN IF ~t.wsConnected \/ t.ws = "null" \/ t.ws # "OPEN" THEN t
          ELSE [t EXCEPT !.sent = Append(@, <<"stop">>)]
  ELSE s

onKeyup(s, event) ==
  IF s.holdActive /\ (mainKeyReleased(event, s.holdSpec)
                        \/ modifiersReleased(event, s.holdSpec))
  THEN sendStopCommand(Call(s, "sendStopCommand"))
  ELSE s

(***************************************************************************)
(* Inbound messages (main.cjs 195-259) and the paste routine (385-406).    *)
(***************************************************************************)
RECURSIVE trimStart(_)
trimStart(t) ==
  IF t = <<>> THEN t
  ELSE IF Head(t) \in Whitespace THEN trimStart(Tail(t)) ELSE t

RECURSIVE trimEnd(_)
trimEnd(t) ==
  IF t = <<>> THEN t
  ELSE IF t[Len(t)] \in Whitespace THEN trimEnd(SubSeq(t, 1, Len(t) - 1)) ELSE t

\* trim that strips the leading whitespace only.
trimLeading(t) == trimStart(t)

trim(t) == trimEnd(trimStart(t))

\* A status handler that does not clear wasActive on idle.
onStatusLevel(s, state) ==
  IF state \in NonIdleStates
  THEN [s EXCEPT !.wasActive = TRUE]
  ELSE IF state = "idle"
       THEN IF s.wasActive THEN playCue(s, "end") ELSE s
       ELSE s

onStatus(s, state) ==
  IF state \in NonIdleStates
  THEN [s EXCEPT !.wasActive = TRUE]
  ELSE IF state = "idle"
       THEN [(IF s.wasActive THEN playCue(s, "end") ELSE s) EXCEPT
               !.wasActive = FALSE]
       ELSE s

\* An llm_status handler that only records the flag.
onLlmStatusNoFallback(s, available) == [s EXCEPT !.llmAvailable = available]

onLlmStatus(s, available) ==
  LET t == [s EXCEPT !.llmAvailable = available]
  IN IF t.currentMode = "assistant" /\ ~t.llmAvailable
     THEN setMode(t, "stt")
     ELSE t

\* clipboard.writeText(text), then the routine waits for its settle timer.
pasteIntoFocusedApp(s, text) ==
  [s EXCEPT !.clipboard = <<text>>, !.inflight = Append(@, text),
            !.delivered = Append(@, text)]

\* The settle timer of the i-th running routine has fired and its SendKeys
\* process pastes what the clipboard holds then.
pasteKeystroke(s, i) ==
  [s EXCEPT !.inflight = SubSeq(@, 1, i - 1) \o SubSeq(@, i + 1, Len(@)),
            !.pasted = Append(@, <<s.inflight[i], s.clipboard[1]>>)]

onResult(s, msgText) ==
  LET text == trim(msgText)
  IN IF text = <<>> THEN s ELSE pasteIntoFocusedApp(s, text)

onAssistantResult(s, msgText) ==
  LET text == trim(msgText)
  IN s

(***************************************************************************)
(* Initial state: the module-level initialisers (main.cjs 24-35).          *)
(***************************************************************************)
NoLast == [op |-> "load", arg |-> "", hit |-> FALSE, preHold |-> FALSE,
           text |-> <<>>]

ModuleLoaded(d, file) ==
  [phase |-> "init", defaultMode |-> d, settingsFile |-> file,
   settingsWrite |-> "ok", sound |-> "",
   currentMode |-> InitialMode(d), llmAvailable |-> FALSE, ws |-> "null",
   wsConnected |-> FALSE, oldSockets |-> 0, pythonProc |-> "null",
   reconnectTimer |-> FALSE, pendingTimers |-> 0, holdActive |-> FALSE,
   wasActive |-> FALSE, inputMode |-> "none", clipboard |-> <<>>,
   inflight |-> <<>>, last |-> NoLast, sent |-> <<>>, cue |-> "none",
   saved |-> FALSE, delivered |-> <<>>, pasted |-> <<>>,
   startsSinceRelease |-> 0,
   schedCalls |-> 0, nonIdleSinceIdle |-> FALSE, hotkey |-> DefaultHotkey,
   holdSpec |-> NoSpec, keyEvent |-> <<>>, calls |-> <<>>,
   orphanSockets |-> 0, liveProcs |-> 0, dropInHold |-> "none",
   exitSinceArm |-> FALSE]

InitFrom(s) ==
  /\ phase = s.phase
  /\ defaultMode = s.defaultMode
  /\ settingsFile = s.settingsFile
  /\ settingsWrite = s.settingsWrite
  /\ sound = s.sound
  /\ currentMode = s.currentMode
  /\ llmAvailable = s.llmAvailable
  /\ ws = s.ws
  /\ wsConnected = s.wsConnected
  /\ oldSockets = s.oldSockets
  /\ pythonProc = s.pythonProc
  /\ reconnectTimer = s.reconnectTimer
  /\ pendingTimers = s.pendingTimers
  /\ holdActive = s.holdActive
  /\ wasActive = s.wasActive
  /\ inputMode = s.inputMode
  /\ clipboard = s.clipboard
  /\ inflight = s.inflight
  /\ last = s.last
  /\ sent = s.sent
  /\ cue = s.cue
  /\ saved = s.saved
  /\ delivered = s.delivered
  /\ pasted = s.pasted
  /\ startsSinceRelease = s.startsSinceRelease
  /\ schedCalls = s.schedCalls
  /\ nonIdleSinceIdle = s.nonIdleSinceIdle
  /\ hotkey = s.hotkey
  /\ holdSpec = s.holdSpec
  /\ keyEvent = s.keyEvent
  /\ calls = s.calls
  /\ orphanSockets = s.orphanSockets
  /\ liveProcs = s.liveProcs
  /\ dropInHold = s.dropInHold
  /\ exitSinceArm = s.exitSinceArm

\* The values of LOCAL_WHISPER_SOUND of the model.
SoundValues == {"", "0"}

\* Writes of settings.json succeed here; SettingsInit has the other cases.
Init ==
  \E d \in Modes, snd \in SoundValues :
    InitFrom([ModuleLoaded(d, "absent") EXCEPT !.sound = snd])

(***************************************************************************)
(* Actions: one per callback the runtime can invoke.                       *)
(***************************************************************************)
\* app.whenReady (main.cjs 461-486); hookLoaded: uiohook-napi could be required.
\* setupHoldToTalk (main.cjs 351-383): TRUE iff holdSpec.ok afterwards.
setupHoldToTalk(s, hookLoaded) ==
  IF ~hookLoaded THEN s
  ELSE [s EXCEPT !.holdSpec = parseHoldHotkey(s.hotkey)]

whenReady(s, hookLoaded) ==
  LET t == setupHoldToTalk(connectWebSocket(loadSettings(s)), hookLoaded)
  IN [t EXCEPT !.phase = "running",
               !.inputMode = IF t.holdSpec.ok THEN "hook" ELSE "fallback"]

AppReady ==
  /\ phase = "init"
  /\ \E hookLoaded \in BOOLEAN :
       Apply(whenReady(Begin("whenReady", ""), hookLoaded))

\* The process ends (main.cjs 488-499) and is launched again: every variable
\* is initialised anew; settings.json, the environment and the system
\* clipboard stay.
Quit ==
  /\ phase = "running"
  /\ Apply([ModuleLoaded(defaultMode, settingsFile) EXCEPT
              !.last = [NoLast EXCEPT !.op = "quit"], !.hotkey = hotkey,
              !.sound = sound, !.settingsWrite = settingsWrite,
              !.clipboard = clipboard])

\* uIOhook 'keydown' and 'keyup'; observed: the event is kept in keyEvent.
\* Bookkeeping of dropInHold: a hold that begins or ends forgets the loss of
\* the channel, and a loss of the channel during a hold is remembered.  A
\* press during a hold begins none and leaves the value as it is.
Held(s) ==
  [s EXCEPT !.dropInHold =
     IF ~holdActive /\ s.holdActive THEN "none"
     ELSE IF holdActive /\ ~s.holdActive
          THEN (IF @ = "dropped" THEN "released" ELSE "none")
          ELSE @]

Lost(s) == [s EXCEPT !.dropInHold = IF holdActive THEN "dropped" ELSE @]

\* Key events with the modifiers that DefaultHotkey does not name left up.
PlainKeyEvents == {e \in KeyEvents : ~e.shiftKey /\ ~e.metaKey}

KeyDownOf(events, observed) ==
  /\ phase = "running" /\ inputMode = "hook"
  /\ \E event \in events :
       Apply(Held(onKeydown([Begin("keydown", "") EXCEPT
                          !.last.hit = matches(event, holdSpec),
                          !.last.preHold = holdActive,
                          !.keyEvent = IF observed THEN <<event>> ELSE <<>>],
                       event)))

KeyUpOf(events, observed) ==
  /\ phase = "running" /\ inputMode = "hook"
  /\ \E event \in events :
       Apply(Held(onKeyup([Begin("keyup", "") EXCEPT
                        !.last.hit = (mainKeyReleased(event, holdSpec)
                                        \/ modifiersReleased(event, holdSpec)),
                        !.last.preHold = holdActive,
                        !.keyEvent = IF observed THEN <<event>> ELSE <<>>],
                     event)))

KeyDown == KeyDownOf(PlainKeyEvents, FALSE)

KeyUp == KeyUpOf(PlainKeyEvents, FALSE)

KeyDownObserved == KeyDownOf(KeyEvents, TRUE)

KeyUpObserved == KeyUpOf(KeyEvents, TRUE)

\* globalShortcut callback of the press-only fallback (main.cjs 483).
FallbackPress ==
  /\ phase = "running" /\ inputMode = "fallback"
  /\ Apply(Held(sendStartCommand(Call([Begin("fallbackPress", "") EXCEPT
                                          !.last.hit = TRUE,
                                          !.last.preHold = holdActive],
                                       "sendStartCommand"))))

\* globalShortcut callback of MODE_TOGGLE_HOTKEY (main.cjs 473).
ToggleHotkey ==
  /\ phase = "running"
  /\ Apply(toggleMode(Begin("toggle", currentMode)))

\* Click on a radio item of the tray menu (main.cjs 428, 437).  A menu that
\* was popped up before the last rebuild keeps its items, so the click is
\* not tied to the current llmAvailable.
TrayClick ==
  /\ phase = "running"
  /\ \E mode \in Modes : Apply(setMode(Begin("setMode", mode), mode))

TimerFire ==
  /\ phase = "running"
  /\ pendingTimers > 0
  /\ ~(ws = "CLOSING" /\ oldSockets >= MaxOld)
  /\ Apply([reconnectTimerFired(Begin("timer", "")) EXCEPT
              !.exitSinceArm = FALSE])

\* 'exit' of the worker.  exitSinceArm: the timer that is pending after the
\* handler was armed before this exit.
PythonExit ==
  /\ phase = "running"
  /\ pythonProc = "running"
  /\ Apply(Lost(pythonExit([Begin("pythonExit", "") EXCEPT
                              !.liveProcs = @ - 1,
                              !.exitSinceArm = reconnectTimer])))

\* The executable could not be started: the child process of the spawn() of
\* the callback that just ran emits 'error' on the next tick and never
\* 'exit'.  main.cjs registers no 'error' listener on pythonProc; the
\* uncaught exception is reported by Electron's main process, which goes on
\* running, and the handle stays in pythonProc.
PythonSpawnError ==
  /\ phase = "running"
  /\ pythonProc = "running"
  /\ \E i \in 1..Len(calls) : calls[i] = "spawn"
  /\ Apply([Begin("spawnError", "") EXCEPT !.pythonProc = "failed",
                                           !.liveProcs = @ - 1])

\* 'open' of the socket in ws.
WsOpen ==
  /\ phase = "running"
  /\ ws = "CONNECTING"
  /\ Apply(wsOnOpen([Begin("wsOpen", "") EXCEPT !.ws = "OPEN"]))

\* The connection attempt is refused: the socket goes to CLOSING and emits 'error'.
WsConnectFail ==
  /\ phase = "running"
  /\ ws = "CONNECTING"
  /\ Apply(Lost(wsOnError([Begin("wsError", "connecting") EXCEPT
                             !.ws = "CLOSING"])))

\* An established connection fails: the socket goes to CLOSING and emits 'error'.
WsError ==
  /\ phase = "running"
  /\ ws = "OPEN"
  /\ Apply(Lost(wsOnError([Begin("wsError", "open") EXCEPT !.ws = "CLOSING"])))

\* The peer starts the closing handshake: readyState changes, no callback runs.
WsPeerClosing ==
  /\ phase = "running"
  /\ ws = "OPEN"
  /\ Apply(Lost([Begin("wsPeerClosing", "") EXCEPT !.ws = "CLOSING"]))

\* The connection of an open socket is lost: 'close'.
WsDrop ==
  /\ phase = "running"
  /\ ws = "OPEN"
  /\ Apply(Lost(wsOnClose([Begin("wsClose", "open") EXCEPT !.ws = "CLOSED"])))

\* A CLOSING socket finishes closing: 'close'.
WsClosed ==
  /\ phase = "running"
  /\ ws = "CLOSING"
  /\ Apply(Lost(wsOnClose([Begin("wsClose", "closing") EXCEPT
                             !.ws = "CLOSED"])))

\* 'close' of a socket that ws no longer refers to.
OldWsClosed ==
  /\ phase = "running"
  /\ oldSockets > 0
  /\ Apply(Lost(wsOnClose([Begin("wsClose", "old") EXCEPT
                             !.oldSockets = @ - 1])))

MsgStatus ==
  /\ phase = "running" /\ ws = "OPEN"
  /\ \E state \in StatusStates :
       Apply([onStatus(Begin("status", state), state) EXCEPT
                !.nonIdleSinceIdle = IF state \in NonIdleStates THEN TRUE
                                     ELSE IF state = "idle" THEN FALSE ELSE @])

MsgLlmStatus ==
  /\ phase = "running" /\ ws = "OPEN"
  /\ \E available \in BOOLEAN :
       Apply(onLlmStatus(Begin("llm_status", IF available THEN "true" ELSE "false"),
                         available))

\* error{message}, unparseable data, unknown type: notifications only.
MsgOther ==
  /\ phase = "running" /\ ws = "OPEN"
  /\ Apply(Begin("otherMessage", ""))

MsgResult ==
  /\ phase = "running" /\ ws = "OPEN"
  /\ Len(inflight) < MaxInflight
  /\ \E msgText \in Texts :
       Apply(onResult([Begin("result", "") EXCEPT !.last.text = msgText], msgText))

MsgAssistantResult ==
  /\ phase = "running" /\ ws = "OPEN"
  /\ \E msgText \in Texts :
       Apply(onAssistantResult([Begin("assistant_result", "") EXCEPT
                                  !.last.text = msgText], msgText))

PasteKeystroke ==
  /\ phase = "running"
  /\ \E i \in 1..Len(inflight) : Apply(pasteKeystroke(Begin("paste", ""), i))

Next ==
  \/ AppReady
  \/ Quit
  \/ KeyDown
  \/ KeyUp
  \/ FallbackPress
  \/ ToggleHotkey
  \/ TrayClick
  \/ TimerFire
  \/ PythonExit
  \/ PythonSpawnError
  \/ WsOpen
  \/ WsConnectFail
  \/ WsError
  \/ WsPeerClosing
  \/ WsDrop
  \/ WsClosed
  \/ OldWsClosed
  \/ MsgStatus
  \/ MsgLlmStatus
  \/ MsgOther

Spec == Init /\ [][Next]_vars

(***************************************************************************)
(* The mode and settings.json, with writes that fail: the disk can change  *)
(* between any two callbacks.                                              *)
(***************************************************************************)
WriteOutcomes == {"ok", "fails", "truncates"}

\* The environment of saveSettings changes (disk full, directory blocked).
DiskChange ==
  \E w \in WriteOutcomes \ {settingsWrite} :
    Apply([Begin("disk", w) EXCEPT !.settingsWrite = w])

SettingsInit ==
  \E d \in Modes, w \in WriteOutcomes :
    InitFrom([ModuleLoaded(d, "absent") EXCEPT !.settingsWrite = w])

SettingsNext ==
  \/ AppReady
  \/ Quit
  \/ WsOpen
  \/ MsgLlmStatus
  \/ ToggleHotkey
  \/ TrayClick
  \/ DiskChange

SettingsSpec == SettingsInit /\ [][SettingsNext]_vars

(***************************************************************************)
(* The message handlers that deliver text, on a connection that stays up.  *)
(***************************************************************************)
DeliveryNext ==
  \/ AppReady
  \/ WsOpen
  \/ KeyDown
  \/ MsgLlmStatus
  \/ ToggleHotkey
  \/ MsgResult
  \/ MsgAssistantResult
  \/ PasteKeystroke

\* The environment of the deliveries: cues enabled, settings writable.
DeliveryInit == \E d \in Modes : InitFrom(ModuleLoaded(d, "absent"))

DeliverySpec == DeliveryInit /\ [][DeliveryNext]_vars

(***************************************************************************)
(* The hotkey: every hotkey string of at most MaxTokens tokens, parsed at  *)
(* whenReady, and the key events and fallback activations after it.        *)
(***************************************************************************)
RECURSIVE TokenSeqs(_)
TokenSeqs(n) ==
  IF n = 0 THEN {<<>>}
  ELSE LET shorter == TokenSeqs(n - 1)
       IN shorter \cup {Append(t, c) : t \in {u \in shorter : Len(u) = n - 1},
                                       c \in Tokens}

Hotkeys == TokenSeqs(MaxTokens)

\* HOTKEY (main.cjs 16): the default replaces an unset or empty variable.
HOTKEY(env) == IF env = <<>> \/ env = <<"">> THEN DefaultHotkey ELSE env

HotkeyInit ==
  \E env \in Hotkeys :
    InitFrom([ModuleLoaded("stt", "absent") EXCEPT !.hotkey = HOTKEY(env)])

HotkeyNext ==
  \/ AppReady
  \/ KeyDownObserved
  \/ KeyUpObserved
  \/ FallbackPress

HotkeySpec == HotkeyInit /\ [][HotkeyNext]_vars

(***************************************************************************)
(* The running application with an endpoint that accepts every connection  *)
(* attempt: no attempt is refused and the process is not quit.  The event  *)
(* loop runs every due callback: whenReady, the reconnect timer, 'open' of *)
(* a connecting socket and 'close' of a closing one.  Failures of open     *)
(* sockets and exits of the worker stay possible and are not forced.       *)
(***************************************************************************)
LiveNext ==
  \/ AppReady
  \/ KeyDown
  \/ KeyUp
  \/ FallbackPress
  \/ TimerFire
  \/ PythonExit
  \/ WsOpen
  \/ WsError
  \/ WsPeerClosing
  \/ WsDrop
  \/ WsClosed
  \/ OldWsClosed

LiveSpec ==
  /\ Init
  /\ [][LiveNext]_vars
  /\ WF_vars(AppReady)
  /\ WF_vars(TimerFire)
  /\ WF_vars(WsOpen)
  /\ WF_vars(WsClosed)
  /\ WF_vars(OldWsClosed)

(***************************************************************************)
(* Properties.                                                             *)
(***************************************************************************)
Connected == wsConnected /\ ws = "OPEN"
PressOps == {"keydown", "fallbackPress"}
IsStart(c) == Len(c) = 2 /\ c[1] = "start"
StartSent(cmds) == \E i \in 1..Len(cmds) : IsStart(cmds[i])

\* C1: from whenReady on, currentMode is "assistant" only while llmAvailable
\* is true; in particular right after the settings (or DEFAULT_MODE) were
\* loaded and before any llm_status message arrived.
C1_AssistantOnlyWhileAvailable ==
  (phase = "running" /\ currentMode = "assistant") => llmAvailable

\* C2: at most one start command is sent between two sendStopCommand calls,
\* and a matching press while holdActive sends nothing and changes no
\* variable of the program, whatever the state of the socket.
C2_OneStartPerHold ==
  [][/\ startsSinceRelease' <= 1
     /\ (last'.op \in PressOps /\ last'.hit /\ holdActive)
          => (sent' = <<>> /\ cue' = "none" /\ UNCHANGED progVars)]_vars

C2_Witness ==
  /\ last.op = "keydown" /\ last.hit /\ last.preHold
  /\ startsSinceRelease = 1 /\ Connected /\ sent = <<>>

\* C3: a keyup handled while holdActive is false sends no command and leaves
\* holdActive, the socket, wsConnected and the reconnect timer unchanged.
C3_ReleaseWithoutHold ==
  [][(last'.op = "keyup" /\ ~holdActive)
       => (sent' = <<>> /\ UNCHANGED <<holdActive, ws, wsConnected,
                                       reconnectTimer, pendingTimers>>)]_vars

C3_Witness ==
  /\ last.op = "keyup" /\ last.hit /\ ~last.preHold
  /\ Connected /\ sent = <<>> /\ ~holdActive

\* C4: a start command is sent only by a matching press handled while
\* holdActive is false, wsConnected is true and the socket is OPEN; such a
\* press handled while not connected sends nothing and leaves exactly one
\* reconnect timer pending.  No other callback sends start, so the press is
\* not replayed when the socket opens.
C4_StartOnlyWhenConnected ==
  [][/\ StartSent(sent')
          => (Connected /\ ~holdActive /\ last'.op \in PressOps /\ last'.hit)
     /\ (last'.op \in PressOps /\ last'.hit /\ ~holdActive /\ ~Connected)
          => (sent' = <<>> /\ holdActive' /\ reconnectTimer'
              /\ pendingTimers' = 1)]_vars

\* The socket opened during a hold whose press was made while not connected.
C4_Witness ==
  /\ last.op = "wsOpen" /\ Connected
  /\ holdActive /\ startsSinceRelease = 0 /\ sent = <<>>

\* C5: at most one reconnect timer is pending, reconnectTimer is set exactly
\* while it is, and however many times scheduleReconnect was called since
\* the timer callback last ran, exactly one callback is outstanding.
C5_OneReconnectTimer ==
  /\ pendingTimers <= 1
  /\ reconnectTimer <=> (pendingTimers = 1)
  /\ pendingTimers = (IF schedCalls > 0 THEN 1 ELSE 0)

C5_Witness ==
  /\ schedCalls >= 2 /\ pendingTimers = 1 /\ reconnectTimer
  /\ last.op \in {"wsClose", "wsError", "pythonExit"} \cup PressOps

\* C6: with llmAvailable false, setMode("assistant") and toggleMode from
\* "stt" leave currentMode "stt" and do not write settings.json; with
\* llmAvailable true toggleMode switches to the other mode; setMode of the
\* current mode changes nothing.
C6_ModeGate ==
  [][/\ (/\ \/ last'.op = "toggle"
            \/ last'.op = "setMode" /\ last'.arg = "assistant"
         /\ currentMode = "stt" /\ ~llmAvailable)
          => (currentMode' = "stt" /\ ~saved' /\ UNCHANGED settingsFile)
     /\ (last'.op = "toggle" /\ llmAvailable)
          => (currentMode' \in Modes /\ currentMode' # currentMode)
     /\ (last'.op = "setMode" /\ last'.arg = currentMode)
          => (~saved' /\ UNCHANGED progVars)]_vars

C6_Witness ==
  /\ last.op = "setMode" /\ last.arg = "assistant"
  /\ currentMode = "stt" /\ ~llmAvailable /\ ~saved

\* C7 as stated: after llm_status{available:false} is handled in mode
\* "assistant", currentMode is "stt", llmAvailable is false and
\* settings.json holds "stt"; llm_status handled in mode "stt" leaves the
\* mode "stt".
C7_ForcedFallback ==
  [][/\ (last'.op = "llm_status" /\ last'.arg = "false"
         /\ currentMode = "assistant")
          => (currentMode' = "stt" /\ ~llmAvailable' /\ settingsFile' = "stt")
     /\ (last'.op = "llm_status" /\ currentMode = "stt")
          => currentMode' = "stt"]_vars

\* C7 amended: after that handler currentMode is "stt" and llmAvailable is
\* false; settings.json holds "stt" when it could be written, is as it was
\* when the write failed before the file was opened and is empty when it
\* failed after that; llm_status handled in mode "stt" leaves the mode
\* "stt" and writes nothing; the next start of the application takes the
\* mode from settings.json when it holds one and from DEFAULT_MODE otherwise.
C7_ForcedFallbackBestEffort ==
  [][/\ (last'.op = "llm_status" /\ last'.arg = "false"
         /\ currentMode = "assistant")
          => (/\ currentMode' = "stt" /\ ~llmAvailable'
              /\ settingsWrite = "ok" => (settingsFile' = "stt" /\ saved')
              /\ settingsWrite = "fails"
                   => (settingsFile' = settingsFile /\ ~saved')
              /\ settingsWrite = "truncates"
                   => (settingsFile' = "empty" /\ ~saved'))
     /\ last'.op = "whenReady"
          => currentMode' = (IF settingsFile \in Modes THEN settingsFile
                             ELSE InitialMode(defaultMode))
     /\ (last'.op = "llm_status" /\ currentMode = "stt")
          => (currentMode' = "stt" /\ ~saved'
              /\ settingsFile' = settingsFile)]_vars

\* The handler has forced the mode back and written settings.json.
C7_Witness ==
  /\ last.op = "llm_status" /\ last.arg = "false" /\ saved
  /\ currentMode = "stt" /\ ~llmAvailable /\ settingsFile = "stt"

\* C8 as stated: handling status{idle} plays the end cue iff a non-idle
\* status was handled since the previous idle one (or since the start of the
\* process); no other status message plays a cue, and the end cue is played
\* by nothing else.
C8_EndCueEdgeTriggered ==
  [][/\ (last'.op = "status" /\ last'.arg = "idle")
          => (cue' = (IF nonIdleSinceIdle THEN "end" ELSE "none"))
     /\ (last'.op = "status" /\ last'.arg # "idle") => cue' = "none"
     /\ cue' = "end" => (last'.op = "status" /\ last'.arg = "idle")]_vars

SoundOn == (IF sound = "" THEN "1" ELSE sound) # "0"

\* C8 amended: with sound cues enabled, handling status{idle} plays the end
\* cue iff a non-idle status was handled since the previous idle one; with
\* LOCAL_WHISPER_SOUND=0 no cue is played at all; no other status message
\* plays a cue, and the end cue is played by nothing else.
C8_EndCueWhenEnabled ==
  [][/\ (last'.op = "status" /\ last'.arg = "idle")
          => (cue' = (IF nonIdleSinceIdle /\ SoundOn THEN "end" ELSE "none"))
     /\ (last'.op = "status" /\ last'.arg # "idle") => cue' = "none"
     /\ cue' = "end" => (last'.op = "status" /\ last'.arg = "idle")
     /\ ~SoundOn => cue' = "none"]_vars

\* With cues enabled, a second idle after a turn: no cue.
C8_Witness ==
  /\ SoundOn
  /\ last.op = "status" /\ last.arg = "idle" /\ cue = "none"
  /\ ~wasActive /\ ~nonIdleSinceIdle /\ holdActive /\ startsSinceRelease = 1

FailureOps == {"wsClose", "wsError", "wsPeerClosing", "pythonExit"}

\* C9: when the failures are transient, that is when from some point on no
\* socket close, socket error or exit of the worker is handled any more, the
\* channel is regarded as connected again (wsConnected true on an OPEN
\* socket), so that a press sends start.
C9_RecoversAfterFailure ==
  <>[](last.op \notin FailureOps) => []<>Connected

AllWhitespace(t) == \A i \in 1..Len(t) : t[i] \in Whitespace

\* d is t without its leading and trailing whitespace.
IsTrimmed(d, t) ==
  \E i \in 0..Len(t), j \in 0..Len(t) :
    /\ i + j <= Len(t)
    /\ \A k \in 1..i : t[k] \in Whitespace
    /\ \A k \in (Len(t) - j + 1)..Len(t) : t[k] \in Whitespace
    /\ d = SubSeq(t, i + 1, Len(t) - j)
    /\ d # <<>> => (d[1] \notin Whitespace /\ d[Len(d)] \notin Whitespace)

\* C10: a result message hands to the paste routine exactly its text without
\* the leading and trailing whitespace, and nothing when that is empty; an
\* assistant_result message hands over nothing and leaves the clipboard and
\* the running paste routines alone.
C10_DeliveredTextIsTrimmed ==
  [][/\ (last'.op = "result" /\ AllWhitespace(last'.text))
          => (delivered' = <<>> /\ UNCHANGED <<clipboard, inflight>>)
     /\ (last'.op = "result" /\ ~AllWhitespace(last'.text))
          => (/\ Len(delivered') = 1
              /\ IsTrimmed(delivered'[1], last'.text)
              /\ clipboard' = delivered'
              /\ inflight' = Append(inflight, delivered'[1]))
     /\ last'.op = "assistant_result"
          => (delivered' = <<>> /\ pasted' = <<>>
              /\ UNCHANGED <<clipboard, inflight>>)]_vars

C10_Witness ==
  /\ last.op = "result" /\ last.text = <<" ", "a", " ">>
  /\ delivered = << <<"a">> >> /\ clipboard = << <<"a">> >>

Called(cs, name) == \E i \in 1..Len(cs) : cs[i] = name

ModifierFlags == {"ctrl", "alt", "shift", "meta"}
Required(spec) == {m \in ModifierFlags : spec[m]}
Carried(event) ==
  {m \in ModifierFlags :
     CASE m = "ctrl" -> event.ctrlKey
       [] m = "alt" -> event.altKey
       [] m = "shift" -> event.shiftKey
       [] m = "meta" -> event.metaKey}

\* C11: with the parsed hotkey spec (modifiers M, key K), a keydown calls
\* sendStartCommand iff the event's key is K and the event carries all of M;
\* a keyup during an active hold calls sendStopCommand iff the event's key
\* is K or a modifier of M is missing on the event.
C11_HotkeyMatcher ==
  [][/\ (last'.op = "keydown" /\ keyEvent' # <<>>)
          => (Called(calls', "sendStartCommand")
                <=> (/\ keyEvent'[1].keycode = holdSpec.keycode
                     /\ Required(holdSpec) \subseteq Carried(keyEvent'[1])))
     /\ (last'.op = "keyup" /\ keyEvent' # <<>> /\ holdActive)
          => (Called(calls', "sendStopCommand")
                <=> (\/ keyEvent'[1].keycode = holdSpec.keycode
                     \/ Required(holdSpec) \ Carried(keyEvent'[1]) # {}))]_vars

\* A hold ended by the release of a modifier while the key is still down.
C11_Witness ==
  /\ last.op = "keyup" /\ last.preHold /\ keyEvent # <<>>
  /\ keyEvent[1].keycode # holdSpec.keycode
  /\ Required(holdSpec) # {}
  /\ Called(calls, "sendStopCommand") /\ ~holdActive

ModifierAliases ==
  {"control", "ctrl", "alt", "shift", "super", "meta", "command", "win", "windows"}

\* The positions of the tokens of a hotkey string that are not modifiers.
KeyTokens(hk) ==
  {i \in 1..Len(hk) : hk[i] # "" /\ toLowerCase(hk[i]) \notin ModifierAliases}

ValidHotkey(hk) ==
  /\ Cardinality(KeyTokens(hk)) = 1
  /\ \A i \in KeyTokens(hk) : UiohookKey(enumKeyOf(hk[i])) # 0

\* C12: the application does not get to run with a hotkey string that has
\* no primary key, an unknown primary key or several non-modifier tokens,
\* and the one non-modifier token of a valid string is the primary key.
C12_InvalidHotkeyIsFatal ==
  /\ phase = "running" => ValidHotkey(hotkey)
  /\ (ValidHotkey(hotkey) /\ holdSpec.ok)
       => \A i \in KeyTokens(hotkey) : holdSpec.keyName = enumKeyOf(hotkey[i])

\* C13: after a worker that could not be started, the application is still
\* running, pythonProc is cleared and a reconnect timer is pending, so that
\* a later firing of the timer spawns again.
C13_SpawnFailureBacksOff ==
  last.op = "spawnError"
    => (phase = "running" /\ pythonProc = "null" /\ reconnectTimer)

IsStop(c) == Len(c) = 1 /\ c[1] = "stop"
StopSent(cmds) == \E i \in 1..Len(cmds) : IsStop(cmds[i])

\* The callbacks in which the channel is lost.
LossOps == {"wsError", "wsClose", "wsPeerClosing", "pythonExit"}

\* A press after the hold has ended is not taken for a repeat: it begins a
\* hold, sends start on a connected channel and asks for a reconnect
\* otherwise.
PressAfterDroppedHold ==
  (last'.op \in PressOps /\ last'.hit /\ dropInHold = "released")
    => /\ holdActive'
       /\ Connected => StartSent(sent')
       /\ ~Connected => (sent' = <<>> /\ reconnectTimer')

\* C14 as stated: the release that follows a loss of the channel during the
\* hold clears holdActive and sends no stop, the press after it is handled
\* as a new press, and holdActive is cleared only by a release or a loss of
\* the channel and set only by a press (a new run of the application starts
\* with holdActive false).
C14_DropMidHold ==
  [][/\ (last'.op = "keyup" /\ last'.hit /\ holdActive /\ dropInHold = "dropped")
          => (~holdActive' /\ ~StopSent(sent'))
     /\ PressAfterDroppedHold
     /\ (holdActive /\ ~holdActive')
          => last'.op \in {"keyup", "quit"} \cup LossOps
     /\ (~holdActive /\ holdActive') => last'.op \in PressOps]_vars

\* C14 amended: that release clears holdActive and sends stop exactly when
\* the channel is connected again by then; the press after it is handled as
\* a new press; within a run holdActive is cleared only by a release and
\* set only by a press.
C14_DropMidHoldReconnected ==
  [][/\ (last'.op = "keyup" /\ last'.hit /\ holdActive /\ dropInHold = "dropped")
          => (~holdActive' /\ (StopSent(sent') <=> Connected))
     /\ PressAfterDroppedHold
     /\ (holdActive /\ ~holdActive') => last'.op \in {"keyup", "quit"}
     /\ (~holdActive /\ holdActive') => last'.op \in PressOps]_vars

\* A release has ended a hold whose channel was lost, without a stop.
C14_Witness ==
  /\ last.op = "keyup" /\ last.preHold
  /\ dropInHold = "released"
  /\ ~holdActive
  /\ sent = <<>>

LiveStates == {"CONNECTING", "OPEN"}

\* C15: connectWebSocket does nothing while the socket is CONNECTING or
\* OPEN, so no socket that is CONNECTING or OPEN is ever replaced (at most
\* one such socket exists) and a socket is created only when the previous
\* one is absent, CLOSING or CLOSED.
C15_OneLiveSocket ==
  [][/\ orphanSockets' = 0
     /\ Called(calls', "newWebSocket") => ws \notin LiveStates
     /\ (last'.op = "timer" /\ ws \in LiveStates)
          => (/\ ~Called(calls', "newWebSocket")
              /\ ws' = ws /\ wsConnected' = wsConnected
              /\ oldSockets' = oldSockets)]_vars

\* The timer has fired while the socket was open and no socket was created.
C15_Witness ==
  /\ last.op = "timer"
  /\ ws = "OPEN"
  /\ ~Called(calls, "newWebSocket")
  /\ orphanSockets = 0

\* C16: startPythonService spawns nothing while a worker is alive, so at
\* most one spawned worker is alive.
C16_OneWorker ==
  [][/\ liveProcs' <= 1
     /\ Called(calls', "spawn") => (pythonProc = "null" /\ liveProcs = 0)
     /\ (last'.op = "timer" /\ pythonProc = "running")
          => (/\ ~Called(calls', "spawn")
              /\ pythonProc' = "running" /\ liveProcs' = liveProcs)]_vars

\* The timer has fired while the worker was alive and nothing was spawned.
C16_Witness ==
  /\ last.op = "timer"
  /\ pythonProc = "running" /\ liveProcs = 1
  /\ ~Called(calls, "spawn")

\* The first position of a call in the calls of a callback, 0 when absent.
IndexOf(cs, name) ==
  IF Called(cs, name)
  THEN CHOOSE i \in 1..Len(cs) :
         cs[i] = name /\ \A j \in 1..(i - 1) : cs[j] # name
  ELSE 0

\* The exit handler clears the handle, marks the channel as not connected,
\* leaves a timer pending and spawns nothing; a spawn happens only when the
\* timer fires, before the socket is created, and the timer leaves a handle.
ExitDefersRestart ==
  /\ last'.op = "pythonExit"
       => (/\ pythonProc' = "null" /\ ~wsConnected'
           /\ reconnectTimer' /\ pendingTimers' > 0
           /\ ~Called(calls', "spawn"))
  /\ Called(calls', "spawn") => last'.op = "timer"
  /\ (Called(calls', "spawn") /\ Called(calls', "newWebSocket"))
       => IndexOf(calls', "spawn") < IndexOf(calls', "newWebSocket")
  /\ last'.op = "timer" => pythonProc' # "null"

\* C17 as stated: ExitDefersRestart, and the timer whose firing spawns was
\* armed by the exit or after it, so that a full delay lies between the
\* exit and the spawn.
C17_ExitThenDelayThenSpawn ==
  [][/\ ExitDefersRestart
     /\ Called(calls', "spawn") => ~exitSinceArm]_vars

\* C17 amended: ExitDefersRestart; the spawn after an exit happens in the
\* next firing of the timer, which may have been armed before the exit.
C17_ExitThenTimerThenSpawn ==
  [][/\ ExitDefersRestart
     /\ (last'.op = "pythonExit" /\ reconnectTimer)
          => (exitSinceArm' /\ pendingTimers' = pendingTimers)
     /\ (last'.op = "pythonExit" /\ ~reconnectTimer) => ~exitSinceArm'
     /\ (last'.op = "timer" /\ pythonProc = "null")
          => Called(calls', "spawn")]_vars

\* The worker has exited while a timer armed before the exit was pending.
C17_Witness ==
  /\ last.op = "pythonExit"
  /\ exitSinceArm
  /\ pythonProc = "null"
  /\ reconnectTimer /\ pendingTimers > 0

\* C18: in the press-only fallback every activation of the hotkey on a
\* connected channel sends start, whatever came before it.
C18_FallbackAlwaysStarts ==
  [][(last'.op = "fallbackPress" /\ Connected) => StartSent(sent')]_vars

\* C19: whatever the order of the messages and of the settle timers, each
\* delivery pastes the trimmed text of the result message that started it.
C19_PastesOwnText ==
  \A i \in 1..Len(pasted) : pasted[i][2] = pasted[i][1]

\* C20 as stated: a stop is sent only when a start was sent by the press
\* that began the hold being released.
C20_StopFollowsStart ==
  [][StopSent(sent') => startsSinceRelease >= 1]_vars

\* C20 amended: a stop is sent only by a release that ends a hold on a
\* connected channel, once per hold and after at most one start of that
\* hold; the press that began the hold has sent that start only if the
\* channel was connected at the press.
C20_StopOnlyEndsHold ==
  [][/\ StopSent(sent')
          => (/\ last'.op = "keyup" /\ last'.hit
              /\ holdActive /\ ~holdActive'
              /\ Connected
              /\ sent' = <<<<"stop">>>>
              /\ startsSinceRelease <= 1)
     /\ (last'.op \in PressOps /\ last'.hit /\ ~holdActive /\ ~Connected)
          => (holdActive' /\ sent' = <<>> /\ startsSinceRelease' = startsSinceRelease)]_vars

\* A release has ended a hold on a connected channel and sent stop.
C20_Witness ==
  /\ last.op = "keyup" /\ last.preHold
  /\ sent = <<<<"stop">>>>
  /\ ~holdActive
  /\ Connected

=============================================================================
